---- MODULE Spec2Model ----
(***************************************************************************)
(* A model of kei-mo/whisper-transcription: the subtitle formatter of      *)
(* audio_transcriber.py, the project store of project_structure.py, the    *)
(* two orchestrators and the commands of main.py.                           *)
(*                                                                          *)
(* Strings are TLA+ strings, read as sequences of characters; a path is    *)
(* the sequence of its parts (Path.parts), << >> being the working         *)
(* directory; a time is a whole number of ticks, Unit ticks to the second. *)
(***************************************************************************)
EXTENDS Integers, Sequences, FiniteSets, TLC

VARIABLES
    fmt,        \* the last call of the formatter: its arguments and its result
    dirs,       \* the directories that exist (paths)
    files,      \* the files that exist: path -> content
    last,       \* the last call of the store, an orchestrator or a command
    supplied,   \* history: folder -> the last non-empty metadata create_project was given
    created     \* history: the folder names create_project has created or found

vars == <<fmt, dirs, files, last, supplied, created>>

(***************************************************************************)
(* Bounds of the model.                                                    *)
(***************************************************************************)
\* Ticks per second: a time t stands for t / Unit seconds.  With Unit a power
\* of two every modelled time is a binary float exactly, so //, % and the
\* formatting of Python are the exact rational operations written below.
Unit == 2048
\* The longest segment sequence handed to the subtitle generators.
MaxSegs == 2

(***************************************************************************)
(* Strings.                                                                *)
(***************************************************************************)
Char(s, i) == SubSeq(s, i, i)

\* str.strip(): leading and trailing whitespace removed.
IsSpace(c) == c \in {" ", "\n", "\t", "\r"}

RECURSIVE LStrip(_)
LStrip(s) ==
    IF Len(s) > 0 /\ IsSpace(Char(s, 1)) THEN LStrip(SubSeq(s, 2, Len(s))) ELSE s

RECURSIVE RStrip(_)
RStrip(s) ==
    IF Len(s) > 0 /\ IsSpace(Char(s, Len(s)))
    THEN RStrip(SubSeq(s, 1, Len(s) - 1)) ELSE s

Strip(s) == RStrip(LStrip(s))

\* sep.join(parts)
RECURSIVE Join(_, _)
Join(sep, parts) ==
    IF Len(parts) = 0 THEN ""
    ELSE IF Len(parts) = 1 THEN parts[1]
    ELSE parts[1] \o sep \o Join(sep, Tail(parts))

\* s.replace(old, new) for a one-character old.
RECURSIVE Replace(_, _, _)
Replace(s, old, new) ==
    IF Len(s) = 0 THEN ""
    ELSE (IF Char(s, 1) = old THEN new ELSE Char(s, 1))
         \o Replace(SubSeq(s, 2, Len(s)), old, new)

(***************************************************************************)
(* Number formatting: what the format specifications 02d and 06.3f do.     *)
(***************************************************************************)
Digit(d) == Char("0123456789", d + 1)

RECURSIVE Dec(_)
Dec(n) == IF n < 10 THEN Digit(n) ELSE Dec(n \div 10) \o Digit(n % 10)

RECURSIVE ZeroPad(_, _)
ZeroPad(s, width) == IF Len(s) >= width THEN s ELSE ZeroPad("0" \o s, width)

\* {n:02d}
Format02d(n) == ZeroPad(Dec(n), 2)

\* A rounding that drops the fraction instead of rounding to nearest.
RoundTruncating(num, den) == num \div den

\* The integer nearest to num / den, a tie going to the even one: the rounding
\* of a float format on the exact value of the float.
RoundHalfEven(num, den) ==
    LET q == num \div den
        r == num % den
    IN  IF 2 * r < den THEN q
        ELSE IF 2 * r > den THEN q + 1
        ELSE IF q % 2 = 0 THEN q ELSE q + 1

\* {secs:06.3f} of secs = ticks / Unit: three decimals, zero-padded to six
\* characters.
Format063f(ticks) ==
    LET ms == RoundHalfEven(ticks * 1000, Unit)
    IN  ZeroPad(Dec(ms \div 1000) \o "." \o ZeroPad(Dec(ms % 1000), 3), 6)

(***************************************************************************)
(* audio_transcriber.py: the subtitle formatter.                           *)
(***************************************************************************)
_format_timestamp(seconds, srt) ==
    LET hours   == seconds \div (3600 * Unit)
        minutes == (seconds % (3600 * Unit)) \div (60 * Unit)
        secs    == seconds % (60 * Unit)
        s       == Format02d(hours) \o ":" \o Format02d(minutes) \o ":" \o Format063f(secs)
    IN  IF srt THEN Replace(s, ".", ",") ELSE s

\* The list `content` of _generate_srt: one entry per segment, numbered from 1.
SrtContent(segments) ==
    [i \in 1..Len(segments) |->
        Dec(i) \o "\n"
        \o _format_timestamp(segments[i].start, TRUE) \o " --> "
        \o _format_timestamp(segments[i].end, TRUE) \o "\n"
        \o Strip(segments[i].text) \o "\n"]

_generate_srt(segments) == Join("\n", SrtContent(segments))

\* The list `content` of _generate_vtt: the header, then one entry per segment.
VttContent(segments) ==
    <<"WEBVTT\n">> \o
    [i \in 1..Len(segments) |->
        _format_timestamp(segments[i].start, FALSE) \o " --> "
        \o _format_timestamp(segments[i].end, FALSE) \o "\n"
        \o Strip(segments[i].text) \o "\n"]

_generate_vtt(segments) == Join("\n", VttContent(segments))

(***************************************************************************)
(* The formatter on its own: each step is one call on inputs drawn from    *)
(* bounded sets.                                                           *)
(***************************************************************************)
\* Whole seconds around the field boundaries: a minute, an hour, a day, 100 h.
WholeSeconds == {0, 59, 60, 3599, 3600, 86399, 86400, 360000}

Seconds == {w * Unit + f : w \in WholeSeconds, f \in 0..(Unit - 1)}

\* 0.0, 1.5 and 3.25 seconds are the segments of the documented example.
SegPool ==
    { [start |-> 0, end |-> (3 * Unit) \div 2, text |-> "hello "],
      [start |-> (3 * Unit) \div 2, end |-> (13 * Unit) \div 4, text |-> "world"],
      [start |-> 3599 * Unit + (Unit - 1), end |-> 3600 * Unit, text |-> " a b\n"] }

RECURSIVE SeqsUpTo(_, _)
SeqsUpTo(S, n) ==
    IF n = 0 THEN {<< >>}
    ELSE LET shorter == SeqsUpTo(S, n - 1)
         IN  shorter \cup {Append(q, x) : q \in {r \in shorter : Len(r) = n - 1}, x \in S}

SegmentSeqs == SeqsUpTo(SegPool, MaxSegs)

\* A formatter call: the function, its arguments and, once it has returned, out.
NoFmt ==
    [op |-> "none", seconds |-> 0, srt |-> FALSE, segments |-> << >>,
     done |-> FALSE, out |-> ""]

FmtCalls ==
    {[NoFmt EXCEPT !.op = "format_timestamp", !.seconds = seconds, !.srt = srt] :
        seconds \in Seconds, srt \in BOOLEAN}
    \cup {[NoFmt EXCEPT !.op = op, !.segments = segments] :
        op \in {"generate_srt", "generate_vtt"}, segments \in SegmentSeqs}

EmptyFiles == [p \in {} |-> ""]

NoCall == [op |-> "none"]

FormatTimestamp ==
    /\ fmt.op = "format_timestamp" /\ ~fmt.done
    /\ fmt' = [fmt EXCEPT !.done = TRUE, !.out = _format_timestamp(fmt.seconds, fmt.srt)]
    /\ UNCHANGED <<dirs, files, last, supplied, created>>

GenerateSrt ==
    /\ fmt.op = "generate_srt" /\ ~fmt.done
    /\ fmt' = [fmt EXCEPT !.done = TRUE, !.out = _generate_srt(fmt.segments)]
    /\ UNCHANGED <<dirs, files, last, supplied, created>>

GenerateVtt ==
    /\ fmt.op = "generate_vtt" /\ ~fmt.done
    /\ fmt' = [fmt EXCEPT !.done = TRUE, !.out = _generate_vtt(fmt.segments)]
    /\ UNCHANGED <<dirs, files, last, supplied, created>>

\* The formatter is called on any of the bounded inputs.
InitFmt ==
    /\ fmt \in FmtCalls
    /\ dirs = {}
    /\ files = EmptyFiles
    /\ last = NoCall
    /\ supplied = EmptyFiles
    /\ created = {}

NextFmt == FormatTimestamp \/ GenerateSrt \/ GenerateVtt

SpecFmt == InitFmt /\ [][NextFmt]_vars

(***************************************************************************)
(* Paths (pathlib.Path) and the file system.  A file system st is a record *)
(* with dirs, the set of directories, and files, path -> content.  An      *)
(* operation returns the file system it leaves and `raised`, the exception *)
(* it raised ("" for none).                                                *)
(***************************************************************************)
PathJoin(a, b) == Append(a, b)

\* str.rfind(c), counted from 1: 0 when c does not occur.
RECURSIVE LastIndexOf(_, _)
LastIndexOf(s, c) ==
    IF Len(s) = 0 THEN 0
    ELSE IF Char(s, Len(s)) = c THEN Len(s)
    ELSE LastIndexOf(SubSeq(s, 1, Len(s) - 1), c)

\* Path.name
Name(p) == IF Len(p) = 0 THEN "" ELSE p[Len(p)]

\* Path.parent
Parent(p) == SubSeq(p, 1, Len(p) - 1)

\* Path.suffix: from the last dot of the name, unless the dot leads or ends it.
Suffix(p) ==
    LET name == Name(p)
        i    == LastIndexOf(name, ".")
    IN  IF 1 < i /\ i < Len(name) THEN SubSeq(name, i, Len(name)) ELSE ""

\* Path.stem: the name without its suffix.
Stem(p) ==
    LET name == Name(p)
        i    == LastIndexOf(name, ".")
    IN  IF 1 < i /\ i < Len(name) THEN SubSeq(name, 1, i - 1) ELSE name

\* str.startswith
StartsWith(s, prefix) ==
    Len(s) >= Len(prefix) /\ SubSeq(s, 1, Len(prefix)) = prefix

IsDir(st, p) == p = << >> \/ p \in st.dirs

IsFile(st, p) == p \in DOMAIN st.files

Exists(st, p) == IsDir(st, p) \/ IsFile(st, p)

\* The entries of a directory: Path.iterdir(), Path.glob("*").
Entries(st, d) == {p \in st.dirs \cup DOMAIN st.files : Parent(p) = d}

Raise(st, exception) == [dirs |-> st.dirs, files |-> st.files, raised |-> exception]

Fine(st) == Raise(st, "")

\* What a path without a directory above it raises.
NoParent(st, p) ==
    Raise(st, IF IsFile(st, Parent(p)) THEN "NotADirectoryError" ELSE "FileNotFoundError")

\* Path.mkdir() without exist_ok: an existing path raises.
MkdirNoExistOk(st, p) ==
    IF Exists(st, p) THEN Raise(st, "FileExistsError")
    ELSE IF ~IsDir(st, Parent(p)) THEN NoParent(st, p)
    ELSE [dirs |-> st.dirs \cup {p}, files |-> st.files, raised |-> ""]

\* Path.mkdir(exist_ok=True): an existing directory is left as it is.
Mkdir(st, p) ==
    IF IsDir(st, p) THEN Fine(st)
    ELSE IF IsFile(st, p) THEN Raise(st, "FileExistsError")
    ELSE IF ~IsDir(st, Parent(p)) THEN NoParent(st, p)
    ELSE [dirs |-> st.dirs \cup {p}, files |-> st.files, raised |-> ""]

\* open(p, "w") and a write of content: the file is created or replaced.
WriteFile(st, p, content) ==
    IF IsDir(st, p) THEN Raise(st, "IsADirectoryError")
    ELSE IF ~IsDir(st, Parent(p)) THEN NoParent(st, p)
    ELSE [dirs |-> st.dirs,
          files |-> [q \in DOMAIN st.files \cup {p} |->
                        IF q = p THEN content ELSE st.files[q]],
          raised |-> ""]

\* os.unlink(p)
Unlink(st, p) ==
    IF IsDir(st, p) THEN Raise(st, "IsADirectoryError")
    ELSE IF ~IsFile(st, p) THEN Raise(st, "FileNotFoundError")
    ELSE [dirs |-> st.dirs,
          files |-> [q \in DOMAIN st.files \ {p} |-> st.files[q]],
          raised |-> ""]

\* json.dump of an object with string keys, and json.load of the document:
\* the document holds the object.
JsonDump(obj) == <<"json", obj>>

JsonLoad(doc) == doc[2]

\* An Optional argument: None is << >>, a value v is <<v>>.
None == << >>

Some(v) == <<v>>

\* Body of the value v: v is worked out once, before Body, as a statement's
\* result is before the statements after it.
With(v, Body(_)) == CHOOSE r \in {Body(x) : x \in {v}} : TRUE

(***************************************************************************)
(* project_structure.py: ProjectStructure.                                 *)
(***************************************************************************)
\* The default base_dir of ProjectStructure.__init__.
BASE_DIR == <<"audio_projects">>

\* ProjectStructure.__init__: the base directory is created if absent.
ProjectStructureInit(st) == Mkdir(st, BASE_DIR)

\* A metadata argument that is not None.
IsNotNone(metadata) == Len(metadata) = 1

\* `if metadata:` is true of a dict that is not None and not empty.
Truthy(metadata) == Len(metadata) = 1 /\ DOMAIN metadata[1] # {}

FolderName(project_name, project_type) ==
    IF project_type = "youtube"
    THEN "youtube_" \o project_name
    ELSE "local_" \o project_name

ProjectDirs(project_name, project_type) ==
    LET project_dir == PathJoin(BASE_DIR, FolderName(project_name, project_type))
    IN  [project_dir |-> project_dir,
         src_audio_dir |-> PathJoin(project_dir, "src_audio"),
         transcription_dir |-> PathJoin(project_dir, "transcription")]

\* The metadata dict with created_at and project_type set in it.
Injected(meta, project_type, now) ==
    [k \in DOMAIN meta \cup {"created_at", "project_type"} |->
        IF k = "created_at" THEN now
        ELSE IF k = "project_type" THEN project_type
        ELSE meta[k]]

\* create_project: the file system it leaves, what it raised, and in ret the
\* three paths it returns.
create_project(st, project_name, project_type, metadata, now) ==
    LET d  == ProjectDirs(project_name, project_type)
        s1 == Mkdir(st, d.project_dir)
        s2 == IF s1.raised # "" THEN s1 ELSE Mkdir(s1, d.src_audio_dir)
        s3 == IF s2.raised # "" THEN s2 ELSE Mkdir(s2, d.transcription_dir)
        s4 == IF s3.raised # "" \/ ~Truthy(metadata) THEN s3
              ELSE WriteFile(s3, PathJoin(d.project_dir, "metadata.json"),
                             JsonDump(Injected(metadata[1], project_type, now)))
    IN  [dirs |-> s4.dirs, files |-> s4.files, raised |-> s4.raised, ret |-> d]

\* A save_transcription_settings that keeps the settings.json it finds.
save_settings_once(st, project_dir, settings, now) ==
    LET settings_file == PathJoin(PathJoin(project_dir, "transcription"), "settings.json")
        settings_data == [k \in DOMAIN settings \cup {"processed_at"} |->
                            IF k = "processed_at" THEN now ELSE settings[k]]
    IN  IF Exists(st, settings_file) THEN Fine(st)
        ELSE WriteFile(st, settings_file, JsonDump(settings_data))

\* save_transcription_settings
save_transcription_settings(st, project_dir, settings, now) ==
    LET settings_file == PathJoin(PathJoin(project_dir, "transcription"), "settings.json")
        settings_data == [k \in DOMAIN settings \cup {"processed_at"} |->
                            IF k = "processed_at" THEN now ELSE settings[k]]
    IN  WriteFile(st, settings_file, JsonDump(settings_data))

\* os.rename(src, dst) of a file: dst is replaced; renaming a file to itself
\* does nothing.
Rename(st, src, dst) ==
    IF ~IsFile(st, src) THEN Raise(st, IF IsDir(st, src) THEN "OSError" ELSE "FileNotFoundError")
    ELSE IF src = dst THEN Fine(st)
    ELSE IF IsDir(st, dst) THEN Raise(st, "IsADirectoryError")
    ELSE IF ~IsDir(st, Parent(dst)) THEN NoParent(st, dst)
    ELSE [dirs |-> st.dirs,
          files |-> [q \in (DOMAIN st.files \ {src}) \cup {dst} |->
                        IF q = dst THEN st.files[src] ELSE st.files[q]],
          raised |-> ""]

\* shutil.copy2(src, dst): into dst when dst is a directory; copying a file
\* onto itself raises SameFileError.
Copy2(st, src, dst) ==
    LET real_dst == IF IsDir(st, dst) THEN PathJoin(dst, Name(src)) ELSE dst
    IN  IF Exists(st, src) /\ src = real_dst THEN Raise(st, "SameFileError")
        ELSE IF IsDir(st, src) THEN Raise(st, "IsADirectoryError")
        ELSE IF ~IsFile(st, src) THEN Raise(st, "FileNotFoundError")
        ELSE WriteFile(st, real_dst, st.files[src])

\* shutil.move(src, dst): os.rename, and copy2 then unlink when that fails.
Move(st, src, dst) ==
    LET real_dst == IF IsDir(st, dst) THEN PathJoin(dst, Name(src)) ELSE dst
        renamed  == Rename(st, src, real_dst)
        copied   == Copy2(st, src, real_dst)
    IN  IF IsDir(st, dst) /\ Exists(st, real_dst) THEN Raise(st, "shutil.Error")
        ELSE IF renamed.raised = "" THEN renamed
        ELSE IF copied.raised # "" THEN copied
        ELSE Unlink(copied, src)

\* move_audio_to_project with the two branches exchanged.
move_audio_swapped(st, audio_file, project_dirs, keep_original) ==
    LET dest_path == PathJoin(project_dirs.src_audio_dir, Name(audio_file))
        s1 == IF keep_original
              THEN Move(st, audio_file, dest_path)
              ELSE Copy2(st, audio_file, dest_path)
    IN  [dirs |-> s1.dirs, files |-> s1.files, raised |-> s1.raised, ret |-> dest_path]

\* move_audio_to_project: ret is the path it returns.
move_audio_to_project(st, audio_file, project_dirs, keep_original) ==
    LET dest_path == PathJoin(project_dirs.src_audio_dir, Name(audio_file))
        s1 == IF keep_original
              THEN Copy2(st, audio_file, dest_path)
              ELSE Move(st, audio_file, dest_path)
    IN  [dirs |-> s1.dirs, files |-> s1.files, raised |-> s1.raised, ret |-> dest_path]

\* The format tags save_transcription_outputs has a branch for, and the
\* extension each branch writes.
KnownFormats == {"text", "json", "srt", "vtt"}

Extension(format_type) == IF format_type = "text" THEN "txt" ELSE format_type

\* What the file of a format holds: the content as given, or the JSON document
\* of a content that is a dict (a str would be parsed first; every json content
\* here is a dict).
Written(format_type, content) ==
    IF format_type = "json" THEN JsonDump(content) ELSE content

\* The loop of save_transcription_outputs from item i of outputs (a dict, in
\* its iteration order: a sequence of <<format_type, content>>).  file_path is
\* the local variable of that name: None until a branch has assigned it.
RECURSIVE SaveLoop(_, _, _, _, _, _, _)
SaveLoop(st, transcription_dir, base_name, outputs, i, file_path, saved_files) ==
    IF i > Len(outputs)
    THEN [dirs |-> st.dirs, files |-> st.files, raised |-> "", ret |-> saved_files]
    ELSE
        LET format_type == outputs[i][1]
            content     == outputs[i][2]
            known       == format_type \in KnownFormats
            path        == PathJoin(transcription_dir,
                                    base_name \o "." \o Extension(format_type))
            file_path1  == IF known THEN Some(path) ELSE file_path
        IN  With(IF known THEN WriteFile(st, path, Written(format_type, content))
                 ELSE Fine(st), LAMBDA s1 :
                IF s1.raised # ""
                THEN [dirs |-> s1.dirs, files |-> s1.files, raised |-> s1.raised,
                      ret |-> saved_files]
                ELSE IF file_path1 = None
                THEN [dirs |-> s1.dirs, files |-> s1.files,
                      raised |-> "UnboundLocalError", ret |-> saved_files]
                ELSE With([t \in DOMAIN saved_files \cup {format_type} |->
                             IF t = format_type THEN file_path1[1] ELSE saved_files[t]],
                          LAMBDA saved :
                            SaveLoop(s1, transcription_dir, base_name, outputs, i + 1,
                                     file_path1, saved)))

save_transcription_outputs(st, project_dirs, outputs, base_name) ==
    SaveLoop(st, project_dirs.transcription_dir, base_name, outputs, 1, None,
             [t \in {} |-> ""])

\* The code point order of the characters that occur in names.
CodePoints == "-./0123456789ABCDEFGHIJKLMNOPQRSTUVWXYZ_abcdefghijklmnopqrstuvwxyz"

Ord(c) == CHOOSE i \in 1..Len(CodePoints) : Char(CodePoints, i) = c

\* a < b for strings, as sorted() compares them.
RECURSIVE StrLess(_, _)
StrLess(a, b) ==
    IF Len(b) = 0 THEN FALSE
    ELSE IF Len(a) = 0 THEN TRUE
    ELSE IF Char(a, 1) = Char(b, 1)
         THEN StrLess(SubSeq(a, 2, Len(a)), SubSeq(b, 2, Len(b)))
         ELSE Ord(Char(a, 1)) < Ord(Char(b, 1))

\* sorted(projects), whatever order iterdir() listed them in.
RECURSIVE Sorted(_)
Sorted(S) ==
    IF S = {} THEN << >>
    ELSE LET least == CHOOSE x \in S : \A y \in S : x = y \/ StrLess(x, y)
         IN  <<least>> \o Sorted(S \ {least})

\* A project test that forgets the youtube_ prefix.
IsProjectLocalOnly(st, item) == IsDir(st, item) /\ StartsWith(Name(item), "local_")

\* The test of list_projects on an entry of the base directory.
IsProject(st, item) ==
    IsDir(st, item)
    /\ (StartsWith(Name(item), "youtube_") \/ StartsWith(Name(item), "local_"))

list_projects(st) ==
    IF ~Exists(st, BASE_DIR) THEN << >>
    ELSE Sorted({Name(item) : item \in {e \in Entries(st, BASE_DIR) : IsProject(st, e)}})

\* len(list(dir.glob("*"))) > 0 with the comparison turned round.
HasEntriesInverted(st, d) == Entries(st, d) = {}

\* len(list(dir.glob("*"))) > 0: false also of a directory that does not exist.
HasEntries(st, d) == Entries(st, d) # {}

\* get_project_info: None, or the info dict (a function of its keys).
get_project_info(st, project_name) ==
    LET project_dir   == PathJoin(BASE_DIR, project_name)
        metadata_file == PathJoin(project_dir, "metadata.json")
        settings_file == PathJoin(PathJoin(project_dir, "transcription"), "settings.json")
        keys == {"name", "path", "has_audio", "has_transcription"}
                \cup (IF Exists(st, metadata_file) THEN {"metadata"} ELSE {})
                \cup (IF Exists(st, settings_file) THEN {"transcription_settings"} ELSE {})
    IN  IF ~Exists(st, project_dir) THEN None
        ELSE Some([k \in keys |->
                CASE k = "name" -> project_name
                  [] k = "path" -> project_dir
                  [] k = "has_audio" -> HasEntries(st, PathJoin(project_dir, "src_audio"))
                  [] k = "has_transcription" ->
                        HasEntries(st, PathJoin(project_dir, "transcription"))
                  [] k = "metadata" -> JsonLoad(st.files[metadata_file])
                  [] k = "transcription_settings" -> JsonLoad(st.files[settings_file])])

(***************************************************************************)
(* The project store as a state machine: each step is one call of a method *)
(* of ProjectStructure on the file system the calls before it left.        *)
(***************************************************************************)
\* The bounded inputs.
ProjectNames == {"abc", "xyz"}

ProjectTypes == {"youtube", "local"}

\* datetime.now().isoformat(): two moments.
Times == {"2025-01-01T00:00:00", "2025-01-02T00:00:00"}

EmptyDict == [k \in {} |-> ""]

Metas ==
    {None, Some(EmptyDict),
     Some([title |-> "First", duration |-> 10]),
     Some([title |-> "Second", duration |-> 20])}

\* The audio files outside the base directory when the run begins.
SourceFiles ==
    [p \in {<<"in", "abc.mp3">>, <<"other", "abc.mp3">>} |->
        IF p = <<"in", "abc.mp3">> THEN "AUDIO-A" ELSE "AUDIO-B"]

Disk == [dirs |-> dirs, files |-> files]

\* The project_dirs dicts of the projects that exist.
ExistingProjects ==
    {d \in {ProjectDirs(n, t) : n \in ProjectNames, t \in ProjectTypes} :
        d.project_dir \in dirs}

CreateProjectOf(names, types, metas, times) ==
    \E project_name \in names, project_type \in types, metadata \in metas, now \in times :
        LET r      == create_project(Disk, project_name, project_type, metadata, now)
            folder == Name(r.ret.project_dir)
            given  == metadata # None /\ Cardinality(DOMAIN metadata[1]) > 0
        IN  /\ dirs' = r.dirs
            /\ files' = r.files
            /\ last' = [op |-> "create_project", project_name |-> project_name,
                        project_type |-> project_type, given |-> given,
                        existed |-> r.ret.project_dir \in dirs,
                        raised |-> r.raised, ret |-> r.ret]
            /\ supplied' =
                 IF given /\ r.raised = ""
                 THEN [f \in DOMAIN supplied \cup {folder} |->
                        IF f = folder
                        THEN [metadata |-> metadata[1], project_type |-> project_type,
                              now |-> now]
                        ELSE supplied[f]]
                 ELSE supplied
            /\ created' = IF r.raised = "" THEN created \cup {folder} ELSE created
            /\ UNCHANGED fmt

CreateProject == CreateProjectOf(ProjectNames, ProjectTypes, Metas, Times)

ListProjects ==
    /\ last' = [op |-> "list_projects", ret |-> list_projects(Disk)]
    /\ UNCHANGED <<fmt, dirs, files, supplied, created>>

\* The paths move_audio_to_project is handed: the source files (there or
\* moved away) and the audio files already in a project.
AudioPaths ==
    DOMAIN SourceFiles \cup {p \in DOMAIN files : Name(Parent(p)) = "src_audio"}

MoveAudioToProject ==
    \E audio_file \in AudioPaths, project_dirs \in ExistingProjects,
       keep_original \in BOOLEAN :
        LET r == move_audio_to_project(Disk, audio_file, project_dirs, keep_original)
        IN  /\ dirs' = r.dirs
            /\ files' = r.files
            /\ last' = [op |-> "move_audio_to_project", audio_file |-> audio_file,
                        project_dirs |-> project_dirs, keep_original |-> keep_original,
                        existed |-> audio_file \in DOMAIN files,
                        content |-> IF audio_file \in DOMAIN files
                                    THEN files[audio_file] ELSE "",
                        raised |-> r.raised, ret |-> r.ret]
            /\ UNCHANGED <<fmt, supplied, created>>

\* The longest outputs dict handed to save_transcription_outputs.
MaxTags == 2

\* The tags of the dicts: three the code has a branch for and one it has not.
OutputTags == {"text", "json", "srt", "pdf"}

OutputContent(format_type) ==
    CASE format_type = "text" -> "hello world"
      [] format_type = "json" -> [text |-> "hello world", language |-> "en"]
      [] format_type = "srt" -> "1\n00:00:00,000 --> 00:00:01,500\nhello world\n"
      [] OTHER -> "%PDF"

\* The dicts of at most MaxTags items, in every iteration order.
OutputDicts ==
    {[i \in 1..Len(tags) |-> <<tags[i], OutputContent(tags[i])>>] :
        tags \in {q \in SeqsUpTo(OutputTags, MaxTags) :
                    \A i, j \in 1..Len(q) : i # j => q[i] # q[j]}}

SaveTranscriptionOutputs ==
    \E project_dirs \in ExistingProjects, outputs \in OutputDicts :
        LET r == save_transcription_outputs(Disk, project_dirs, outputs, "transcript")
        IN  /\ dirs' = r.dirs
            /\ files' = r.files
            /\ last' = [op |-> "save_transcription_outputs", project_dirs |-> project_dirs,
                        outputs |-> outputs, base_name |-> "transcript",
                        raised |-> r.raised, ret |-> r.ret]
            /\ UNCHANGED <<fmt, supplied, created>>

SettingsPool ==
    {[model_size |-> "base", language |-> "en", output_format |-> f,
      audio_file |-> <<"in", "abc.mp3">>] : f \in {"all"}}

SaveTranscriptionSettings ==
    \E project_dirs \in ExistingProjects, settings \in SettingsPool,
       now \in {"2025-01-01T00:00:00"} :
        LET r == save_transcription_settings(Disk, project_dirs.project_dir, settings, now)
        IN  /\ dirs' = r.dirs
            /\ files' = r.files
            /\ last' = [op |-> "save_transcription_settings",
                        project_dir |-> project_dirs.project_dir,
                        settings |-> settings, now |-> now, raised |-> r.raised]
            /\ UNCHANGED <<fmt, supplied, created>>

GetProjectInfo ==
    \E project_name \in {"local_abc", "local_xyz"} :
        /\ last' = [op |-> "get_project_info", project_name |-> project_name,
                    ret |-> get_project_info(Disk, project_name)]
        /\ UNCHANGED <<fmt, dirs, files, supplied, created>>

\* After ProjectStructure(): the base directory exists and holds nothing.
InitStore ==
    /\ fmt = NoFmt
    /\ dirs = {BASE_DIR, <<"in">>, <<"other">>}
    /\ files = SourceFiles
    /\ last = NoCall
    /\ supplied = EmptyDict
    /\ created = {}

\* Projects are created and listed.
NextCreate == CreateProject \/ ListProjects

SpecCreate == InitStore /\ [][NextCreate]_vars

\* One project, local_abc, and every method of the store on it.
CreateOne ==
    CreateProjectOf({"abc"}, {"local"}, {Some(EmptyDict), Some([title |-> "First", duration |-> 10])},
                    {"2025-01-01T00:00:00"})

NextStore ==
    \/ CreateOne
    \/ MoveAudioToProject
    \/ SaveTranscriptionSettings
    \/ SaveTranscriptionOutputs
    \/ GetProjectInfo

SpecStore == InitStore /\ [][NextStore]_vars

(***************************************************************************)
(* audio_transcriber.py: AudioTranscriber.  The Whisper model is a         *)
(* collaborator: loading it and transcribing with it either raise or       *)
(* return, and what they do is an input of the call.                       *)
(***************************************************************************)
\* dict.get(k, default)
Get(d, k, default) == IF k \in DOMAIN d THEN d[k] ELSE default

\* What the loop of _write_srt writes from segment i on: each block ends with
\* an empty line.
RECURSIVE SrtWrites(_, _)
SrtWrites(segments, i) ==
    IF i > Len(segments) THEN ""
    ELSE Dec(i) \o "\n"
         \o _format_timestamp(segments[i].start, TRUE) \o " --> "
         \o _format_timestamp(segments[i].end, TRUE) \o "\n"
         \o Strip(segments[i].text) \o "\n\n" \o SrtWrites(segments, i + 1)

\* The file _write_srt leaves.
_write_srt(segments) == SrtWrites(segments, 1)

\* What the loop of _write_vtt writes from segment i on.
RECURSIVE VttWrites(_, _)
VttWrites(segments, i) ==
    IF i > Len(segments) THEN ""
    ELSE _format_timestamp(segments[i].start, FALSE) \o " --> "
         \o _format_timestamp(segments[i].end, FALSE) \o "\n"
         \o Strip(segments[i].text) \o "\n\n" \o VttWrites(segments, i + 1)

\* The file _write_vtt leaves: the header, then the blocks.
_write_vtt(segments) == "WEBVTT\n\n" \o VttWrites(segments, 1)

\* AudioTranscriber.__init__: loaded tells whether whisper.load_model returned.
\* self is the object it leaves.
AudioTranscriberInit(st, model_size, use_project_structure, loaded) ==
    LET s1 == IF ~loaded THEN Raise(st, "RuntimeError")
              ELSE IF use_project_structure THEN ProjectStructureInit(st)
              ELSE Mkdir(st, <<"transcriptions">>)
    IN  [dirs |-> s1.dirs, files |-> s1.files, raised |-> s1.raised,
         self |-> [model_size |-> model_size,
                   use_project_structure |-> use_project_structure]]

\* The formats an output_format asks for, in the order the code builds them.
FormatOrder == <<"text", "json", "srt", "vtt">>

Requested(output_format) ==
    SelectSeq(FormatOrder, LAMBDA t : output_format \in {t, "all"})

\* The representation of a transcription result in one format.
Representation(format_type, result) ==
    CASE format_type = "text" -> result["text"]
      [] format_type = "json" -> result
      [] format_type = "srt" -> _generate_srt(result["segments"])
      [] format_type = "vtt" -> _generate_vtt(result["segments"])

\* datetime.now().strftime("%Y%m%d_%H%M%S") of the moment isoformat() writes
\* as now.
Strftime(now) == Replace(Replace(Replace(now, "-", ""), ":", ""), "T", "_")

\* The branch of transcribe_audio that writes next to no project: the files go
\* to self.output_dir, an attribute only a transcriber constructed without the
\* project structure has.
RECURSIVE LegacyLoop(_, _, _, _, _, _)
LegacyLoop(st, output_base, result, formats, i, outputs) ==
    IF i > Len(formats)
    THEN [dirs |-> st.dirs, files |-> st.files, raised |-> "", ret |-> outputs]
    ELSE
        LET t    == formats[i]
            path == PathJoin(Parent(output_base),
                             Name(output_base) \o "." \o Extension(t))
            body == CASE t = "text" -> result["text"]
                      [] t = "json" -> JsonDump(result)
                      [] t = "srt" -> _write_srt(result["segments"])
                      [] t = "vtt" -> _write_vtt(result["segments"])
        IN  With(WriteFile(st, path, body), LAMBDA s1 :
                IF s1.raised # ""
                THEN [dirs |-> s1.dirs, files |-> s1.files, raised |-> s1.raised,
                      ret |-> outputs]
                ELSE With([k \in DOMAIN outputs \cup {t} |->
                             IF k = t THEN path ELSE outputs[k]],
                          LAMBDA saved :
                            LegacyLoop(s1, output_base, result, formats, i + 1, saved)))

\* The dict output_contents of transcribe_audio, in the order it is filled.
OutputContents(output_format, result) ==
    [i \in 1..Len(Requested(output_format)) |->
        <<Requested(output_format)[i],
          Representation(Requested(output_format)[i], result)>>]

\* A transcribe_audio that hands the path to the model without looking at it.
transcribe_audio_unverified(st, self, audio_path, language, output_format, project_dirs, outcome, now) ==
    LET failed(s, exception, invoked) ==
            [dirs |-> s.dirs, files |-> s.files, raised |-> exception,
             invoked |-> invoked, ret |-> None]
        settings == [model_size |-> self.model_size, language |-> language,
                     output_format |-> output_format, audio_file |-> audio_path]
        returned(s, outputs) ==
            [dirs |-> s.dirs, files |-> s.files, raised |-> "", invoked |-> TRUE,
             ret |-> Some([text |-> outcome[1]["text"],
                           language |-> Get(outcome[1], "language", "unknown"),
                           duration |-> Get(outcome[1], "duration", 0),
                           output_files |-> outputs,
                           segments |-> Get(outcome[1], "segments", << >>)])]
    IN  IF outcome = None THEN failed(st, "RuntimeError", TRUE)
        ELSE IF self.use_project_structure /\ project_dirs # None
        THEN
            With(save_transcription_settings(st, project_dirs[1].project_dir, settings, now),
                 LAMBDA s1 :
            IF s1.raised # "" THEN failed(s1, s1.raised, TRUE)
            ELSE
            With(OutputContents(output_format, outcome[1]), LAMBDA output_contents :
            With(save_transcription_outputs(s1, project_dirs[1], output_contents,
                                            "transcript"),
                 LAMBDA s2 :
            IF s2.raised # "" THEN failed(s2, s2.raised, TRUE)
            ELSE returned(s2, s2.ret))))
        ELSE IF self.use_project_structure THEN failed(st, "AttributeError", TRUE)
        ELSE
            With(LegacyLoop(st, PathJoin(<<"transcriptions">>,
                                         Stem(audio_path) \o "_" \o Strftime(now)),
                            outcome[1], Requested(output_format), 1, [k \in {} |-> << >>]),
                 LAMBDA s1 :
            IF s1.raised # "" THEN failed(s1, s1.raised, TRUE)
            ELSE returned(s1, s1.ret))

\* transcribe_audio.  outcome is what self.model.transcribe does: None when it
\* raises, Some(result) when it returns result.  invoked tells whether the
\* model was called.
transcribe_audio(st, self, audio_path, language, output_format, project_dirs, outcome, now) ==
    LET failed(s, exception, invoked) ==
            [dirs |-> s.dirs, files |-> s.files, raised |-> exception,
             invoked |-> invoked, ret |-> None]
        settings == [model_size |-> self.model_size, language |-> language,
                     output_format |-> output_format, audio_file |-> audio_path]
        returned(s, outputs) ==
            [dirs |-> s.dirs, files |-> s.files, raised |-> "", invoked |-> TRUE,
             ret |-> Some([text |-> outcome[1]["text"],
                           language |-> Get(outcome[1], "language", "unknown"),
                           duration |-> Get(outcome[1], "duration", 0),
                           output_files |-> outputs,
                           segments |-> Get(outcome[1], "segments", << >>)])]
    IN  IF ~Exists(st, audio_path) THEN failed(st, "FileNotFoundError", FALSE)
        ELSE IF outcome = None THEN failed(st, "RuntimeError", TRUE)
        ELSE IF self.use_project_structure /\ project_dirs # None
        THEN
            With(save_transcription_settings(st, project_dirs[1].project_dir, settings, now),
                 LAMBDA s1 :
            IF s1.raised # "" THEN failed(s1, s1.raised, TRUE)
            ELSE
            With(OutputContents(output_format, outcome[1]), LAMBDA output_contents :
            With(save_transcription_outputs(s1, project_dirs[1], output_contents,
                                            "transcript"),
                 LAMBDA s2 :
            IF s2.raised # "" THEN failed(s2, s2.raised, TRUE)
            ELSE returned(s2, s2.ret))))
        ELSE IF self.use_project_structure THEN failed(st, "AttributeError", TRUE)
        ELSE
            With(LegacyLoop(st, PathJoin(<<"transcriptions">>,
                                         Stem(audio_path) \o "_" \o Strftime(now)),
                            outcome[1], Requested(output_format), 1, [k \in {} |-> << >>]),
                 LAMBDA s1 :
            IF s1.raised # "" THEN failed(s1, s1.raised, TRUE)
            ELSE returned(s1, s1.ret))

(***************************************************************************)
(* youtube_downloader.py: YouTubeDownloader.  yt_dlp is a collaborator:    *)
(* what a download leaves on disk and whether it raises is an input.       *)
(***************************************************************************)
\* The characters of the class [0-9A-Za-z_-].
IdChars == "0123456789ABCDEFGHIJKLMNOPQRSTUVWXYZabcdefghijklmnopqrstuvwxyz_-"

IdCharSet == {Char(IdChars, i) : i \in 1..Len(IdChars)}

IsId(s) == \A i \in 1..Len(s) : Char(s, i) \in IdCharSet

\* re.search of (?:lead|...)([0-9A-Za-z_-]{11}) in url from position i: group 1
\* of the leftmost match, the alternatives tried in their order; None when
\* nothing matches.
RECURSIVE Search(_, _, _)
Search(leads, url, i) ==
    IF i > Len(url) THEN None
    ELSE
        LET hits == SelectSeq(leads, LAMBDA lead :
                        /\ i + Len(lead) + 10 <= Len(url)
                        /\ SubSeq(url, i, i + Len(lead) - 1) = lead
                        /\ IsId(SubSeq(url, i + Len(lead), i + Len(lead) + 10)))
        IN  IF Len(hits) > 0
            THEN Some(SubSeq(url, i + Len(hits[1]), i + Len(hits[1]) + 10))
            ELSE Search(leads, url, i + 1)

\* The five patterns of _extract_video_id, each by its leading alternatives.
Patterns == <<<<"v=", "/">>, <<"embed/">>, <<"watch?v=">>, <<"youtu.be/">>, <<"live/">>>>

RECURSIVE FirstMatch(_, _)
FirstMatch(url, k) ==
    IF k > Len(Patterns) THEN None
    ELSE IF Search(Patterns[k], url, 1) # None THEN Search(Patterns[k], url, 1)
    ELSE FirstMatch(url, k + 1)

\* An extraction that takes the whole URL for the id when no pattern matches.
ExtractAnyId(url) == IF FirstMatch(url, 1) = None THEN Some(url) ELSE FirstMatch(url, 1)

_extract_video_id(url) == FirstMatch(url, 1)

\* str.lower() on the letters a suffix is made of.
Upper == "ABCDEFGHIJKLMNOPQRSTUVWXYZ"

RECURSIVE Lower(_)
Lower(s) ==
    IF Len(s) = 0 THEN ""
    ELSE (IF \E i \in 1..26 : Char(Upper, i) = Char(s, 1)
          THEN Char("abcdefghijklmnopqrstuvwxyz",
                    CHOOSE i \in 1..26 : Char(Upper, i) = Char(s, 1))
          ELSE Char(s, 1))
         \o Lower(SubSeq(s, 2, Len(s)))

\* The suffixes the fallback scan takes for audio.
AudioSuffixes == {".mp3", ".m4a", ".wav", ".opus", ".webm"}

\* YouTubeDownloader.__init__
YouTubeDownloaderInit(st, use_project_structure) ==
    LET s1 == IF use_project_structure THEN ProjectStructureInit(st)
              ELSE Mkdir(st, <<"audio_files">>)
    IN  [dirs |-> s1.dirs, files |-> s1.files, raised |-> s1.raised,
         self |-> [use_project_structure |-> use_project_structure,
                   output_dir |-> <<"audio_files">>]]

\* What ydl.extract_info(url, download=True) leaves in the directory of the
\* output template: the file {video_id}.{ext} when dl.ext is Some(ext).
Downloaded(st, output_dir, video_id, dl) ==
    IF dl.ext = None THEN Fine(st)
    ELSE WriteFile(st, PathJoin(output_dir, video_id \o "." \o dl.ext[1]), dl.content)

\* The files the code may take for the downloaded audio: the expected name if
\* it exists, and otherwise the first file {video_id}.* of an audio suffix that
\* glob() yields, in whatever order it lists them; the expected name again if
\* there is none.
Located(st, dir, video_id, audio_format) ==
    LET audio_file == PathJoin(dir, video_id \o "." \o audio_format)
        scanned == {file \in Entries(st, dir) :
                        /\ StartsWith(Name(file), video_id \o ".")
                        /\ Lower(Suffix(file)) \in AudioSuffixes}
    IN  IF Exists(st, audio_file) \/ scanned = {} THEN {audio_file} ELSE scanned

\* A removal that leaves the tree where it is.
RmTreeSkipped(st, d) == Fine(st)

\* shutil.rmtree(d, ignore_errors=True)
RmTree(st, d) ==
    LET under(p) == Len(p) >= Len(d) /\ SubSeq(p, 1, Len(d)) = d
    IN  [dirs |-> {p \in st.dirs : ~under(p)},
         files |-> [p \in {q \in DOMAIN st.files : ~under(q)} |-> st.files[p]],
         raised |-> ""]

\* The dict download_audio returns, without project_dirs.
DownloadInfo(info, video_id, audio_file, audio_format, url) ==
    [title |-> Get(info, "title", "Unknown"), duration |-> Get(info, "duration", 0),
     uploader |-> Get(info, "uploader", "Unknown"), video_id |-> video_id,
     audio_file |-> audio_file, format |-> audio_format, url |-> url]

\* The metadata download_audio gives the project.
SourceMetadata(info, video_id, url) ==
    [title |-> Get(info, "title", "Unknown"), duration |-> Get(info, "duration", 0),
     uploader |-> Get(info, "uploader", "Unknown"), video_id |-> video_id,
     url |-> url, upload_date |-> Get(info, "upload_date", "Unknown"),
     view_count |-> Get(info, "view_count", 0),
     description |-> Get(info, "description", "")]

\* download_audio from the located file on, in the project structure: create
\* the project, move the file, delete temp_downloads.  Whatever is raised
\* leaves as Exception.
IntoProject(st, self, url, video_id, audio_file, audio_format, info, now) ==
    LET temp_dir == <<"temp_downloads">>
        failed(s) == [dirs |-> s.dirs, files |-> s.files, raised |-> "Exception",
                      invoked |-> TRUE, ret |-> None]
    IN  With(create_project(st, video_id, "youtube",
                            Some(SourceMetadata(info, video_id, url)), now),
             LAMBDA c :
        IF c.raised # "" THEN failed(c)
        ELSE
        With(move_audio_to_project(c, audio_file, c.ret, FALSE), LAMBDA m :
        IF m.raised # "" THEN failed(m)
        ELSE
        With(IF Exists(m, temp_dir) THEN RmTree(m, temp_dir) ELSE Fine(m), LAMBDA s3 :
        [dirs |-> s3.dirs, files |-> s3.files, raised |-> "", invoked |-> TRUE,
         ret |-> Some([k \in {"title", "duration", "uploader", "video_id", "audio_file",
                               "format", "url", "project_dirs"} |->
                         IF k = "project_dirs" THEN c.ret
                         ELSE DownloadInfo(info, video_id, m.ret, audio_format, url)[k]])])))

\* download_audio: the outcomes it can have.  dl is what the download does:
\* dl.raises, the file it leaves (dl.ext, dl.content) and the info it returns.
\* invoked tells whether yt_dlp was called.
download_audio(st, self, url, audio_format, dl, now) ==
    LET output_dir == IF self.use_project_structure THEN <<"temp_downloads">>
                      ELSE self.output_dir
        failed(s, exception, invoked) ==
            [dirs |-> s.dirs, files |-> s.files, raised |-> exception,
             invoked |-> invoked, ret |-> None]
    IN  With(_extract_video_id(url), LAMBDA video_id :
        IF video_id = None THEN {failed(st, "ValueError", FALSE)}
        ELSE
        With(IF self.use_project_structure THEN Mkdir(st, output_dir) ELSE Fine(st),
             LAMBDA s1 :
        IF s1.raised # "" THEN {failed(s1, s1.raised, FALSE)}
        ELSE
        With(Downloaded(s1, output_dir, video_id[1], dl), LAMBDA s2 :
        IF dl.raises \/ s2.raised # "" THEN {failed(s2, "Exception", TRUE)}
        ELSE IF self.use_project_structure
        THEN {IntoProject(s2, self, url, video_id[1], audio_file, audio_format, dl.info, now) :
                audio_file \in Located(s2, output_dir, video_id[1], audio_format)}
        ELSE {[dirs |-> s2.dirs, files |-> s2.files, raised |-> "", invoked |-> TRUE,
               ret |-> Some(DownloadInfo(dl.info, video_id[1], audio_file, audio_format,
                                         url))] :
                audio_file \in Located(s2, output_dir, video_id[1], audio_format)})))

\* get_video_info: fetched is None when yt_dlp raises, Some(info) otherwise.
get_video_info(url, fetched) ==
    IF fetched = None THEN [raised |-> "Exception", ret |-> None]
    ELSE [raised |-> "",
          ret |-> Some([title |-> Get(fetched[1], "title", "Unknown"),
                        duration |-> Get(fetched[1], "duration", 0),
                        uploader |-> Get(fetched[1], "uploader", "Unknown"),
                        upload_date |-> Get(fetched[1], "upload_date", "Unknown"),
                        view_count |-> Get(fetched[1], "view_count", 0),
                        description |-> Get(fetched[1], "description", ""),
                        video_id |-> Get(fetched[1], "id", ""),
                        url |-> url])]

(***************************************************************************)
(* main.py: the commands.  world holds what the collaborators do during    *)
(* the run: loaded (whisper.load_model returns), outcome (of                *)
(* model.transcribe), fetched (of get_video_info) and dl (the download).   *)
(***************************************************************************)
\* Path.stat().st_size
Size(st, p) == IF IsFile(st, p) THEN Len(st.files[p]) ELSE 0

\* transcribe_local_audio: the file system it leaves, what it raised, the
\* project_dirs it worked in (None before create_project returned) and the
\* result it returns.
transcribe_local_audio(st, audio_path, model_size, language, output_format, world, now) ==
    LET metadata(s) ==
            [original_filename |-> Name(audio_path),
             file_size |-> IF Exists(s, audio_path) THEN Size(s, audio_path) ELSE 0,
             source_type |-> "local"]
        out(s, project_dirs, ret) ==
            [dirs |-> s.dirs, files |-> s.files, raised |-> s.raised,
             project_dirs |-> project_dirs, ret |-> ret]
    IN  With(ProjectStructureInit(st), LAMBDA s0 :
        IF s0.raised # "" THEN out(s0, None, None)
        ELSE
        With(create_project(s0, Stem(audio_path), "local", Some(metadata(s0)), now),
             LAMBDA c :
        IF c.raised # "" THEN out(c, None, None)
        ELSE
        With(move_audio_to_project(c, audio_path, c.ret, TRUE), LAMBDA m :
        IF m.raised # "" THEN out(m, Some(c.ret), None)
        ELSE
        With(AudioTranscriberInit(m, model_size, TRUE, world.loaded), LAMBDA t0 :
        IF t0.raised # "" THEN out(t0, Some(c.ret), None)
        ELSE
        With(transcribe_audio(t0, t0.self, m.ret, language, output_format, Some(c.ret),
                              world.outcome, now),
             LAMBDA t :
        out(t, Some(c.ret), t.ret))))))

\* The audio file is kept as it is.
CleanUpNever(st, audio_file, keep_audio) == Fine(st)

\* The last step of transcribe_youtube: without keep_audio the audio file is
\* deleted.
CleanUp(st, audio_file, keep_audio) ==
    IF ~keep_audio THEN Unlink(st, audio_file) ELSE Fine(st)

\* transcribe_youtube after download_audio left d.
AfterDownload(d, model_size, language, output_format, keep_audio, world, warned, now) ==
    LET out(s, download, ret) ==
            [dirs |-> s.dirs, files |-> s.files, raised |-> s.raised, warned |-> warned,
             download |-> download, ret |-> ret]
    IN  IF d.raised # "" THEN out(d, None, None)
        ELSE
        With(d.ret[1]["audio_file"], LAMBDA audio_file :
        With(IF "project_dirs" \in DOMAIN d.ret[1]
             THEN Some(d.ret[1]["project_dirs"]) ELSE None,
             LAMBDA project_dirs :
        With(AudioTranscriberInit(d, model_size, TRUE, world.loaded), LAMBDA t0 :
        IF t0.raised # "" THEN out(t0, d.ret, None)
        ELSE
        With(transcribe_audio(t0, t0.self, audio_file, language, output_format,
                              project_dirs, world.outcome, now),
             LAMBDA t :
        IF t.raised # "" THEN out(t, d.ret, None)
        ELSE
        With(CleanUp(t, audio_file, keep_audio), LAMBDA u :
        IF u.raised # "" THEN out(u, d.ret, None)
        ELSE out(u, d.ret, t.ret))))))

\* transcribe_youtube: the outcomes it can have.  warned tells whether the
\* video information could not be fetched, which only prints a warning;
\* download is the dict download_audio returned.
transcribe_youtube(st, url, model_size, language, output_format, audio_format, keep_audio, world, now) ==
    With(YouTubeDownloaderInit(st, TRUE), LAMBDA d0 :
    With(get_video_info(url, world.fetched).raised # "", LAMBDA warned :
    IF d0.raised # ""
    THEN {[dirs |-> d0.dirs, files |-> d0.files, raised |-> d0.raised,
           warned |-> FALSE, download |-> None, ret |-> None]}
    ELSE {AfterDownload(d, model_size, language, output_format, keep_audio, world,
                        warned, now) :
            d \in download_audio(d0, d0.self, url, audio_format, world.dl, now)}))

\* list_projects of main.py: what it prints about each project, in order.
ListedProjects(st) ==
    With(ProjectStructureInit(st), LAMBDA s0 :
    With(list_projects(s0), LAMBDA projects :
    [dirs |-> s0.dirs, files |-> s0.files, raised |-> s0.raised,
     ret |-> [i \in 1..Len(projects) |-> get_project_info(s0, projects[i])]]))

\* The exit code of main(): 1 after any exception, 0 otherwise.
ExitCode(raised) == IF raised # "" THEN 1 ELSE 0

(***************************************************************************)
(* The program as a state machine: each step is one run of a command of    *)
(* main() on the disk the runs before it left.                             *)
(***************************************************************************)
\* What whisper returns for the audio: text, language and timed segments, and
\* no duration.
Transcript ==
    [text |-> " hello world", language |-> "en",
     segments |-> <<[start |-> 0, end |-> (3 * Unit) \div 2, text |-> " hello"],
                    [start |-> (3 * Unit) \div 2, end |-> (13 * Unit) \div 4,
                     text |-> " world"]>>]

\* What yt_dlp reports of the video.
VideoInfo == [id |-> "dQw4w9WgXcQ", title |-> "Talk", duration |-> 3, uploader |-> "someone"]

\* A run in which every collaborator does its work: the download leaves
\* {video_id}.{audio_format}.
FineWorld(audio_format) ==
    [loaded |-> TRUE, outcome |-> Some(Transcript), fetched |-> Some(VideoInfo),
     dl |-> [raises |-> FALSE, ext |-> Some(audio_format), content |-> "AUDIO-Y",
             info |-> VideoInfo]]

\* The runs of the `audio` command: all is fine, or the transcription raises.
AudioWorlds ==
    {FineWorld("mp3"),
     [FineWorld("mp3") EXCEPT !.outcome = None]}

\* The runs of the `youtube` command: those, and the video information is not
\* fetched, or the download raises and leaves no file.
YoutubeWorlds(audio_format) ==
    {FineWorld(audio_format),
     [FineWorld(audio_format) EXCEPT !.outcome = None],
     [FineWorld(audio_format) EXCEPT !.fetched = None],
     [FineWorld(audio_format) EXCEPT !.dl.raises = TRUE, !.dl.ext = None]}

\* The arguments of the commands.
AudioArgs == {<<"in", "abc.mp3">>, <<"in", "missing.mp3">>}

Urls == {"https://youtu.be/dQw4w9WgXcQ", "https://example.com/v"}

OutputFormats == {"srt", "all"}

AudioFormats == {"mp3"}

Languages == {None}

Clock == {"2025-01-01T00:00:00"}

\* main() with the command `audio`.
AudioCommand ==
    \E file \in AudioArgs, format \in OutputFormats, language \in Languages,
       world \in AudioWorlds, now \in Clock :
        \E st \in {Disk} :
          \E r \in {transcribe_local_audio(st, file, "base", language, format, world, now)} :
            /\ dirs' = r.dirs
            /\ files' = r.files
            /\ last' = [op |-> "audio", file |-> file, format |-> format,
                        existed |-> Exists(st, file),
                        raised |-> r.raised, exit |-> ExitCode(r.raised),
                        project_dirs |-> r.project_dirs, ret |-> r.ret]
            /\ UNCHANGED <<fmt, supplied, created>>

\* main() with the command `youtube`.
YoutubeCommand ==
    \E url \in Urls, format \in OutputFormats, language \in Languages,
       audio_format \in AudioFormats, keep_audio \in BOOLEAN, now \in Clock :
        \E world \in YoutubeWorlds(audio_format) :
          \E st \in {Disk} :
            \E r \in transcribe_youtube(st, url, "base", language, format, audio_format,
                                        keep_audio, world, now) :
                /\ dirs' = r.dirs
                /\ files' = r.files
                /\ last' = [op |-> "youtube", url |-> url, format |-> format,
                            audio_format |-> audio_format, keep_audio |-> keep_audio,
                            raised |-> r.raised, exit |-> ExitCode(r.raised),
                            warned |-> r.warned, download |-> r.download, ret |-> r.ret]
                /\ UNCHANGED <<fmt, supplied, created>>

\* main() with the command `list`.
ListCommand ==
    \E r \in {ListedProjects(Disk)} :
        /\ dirs' = r.dirs
        /\ files' = r.files
        /\ last' = [op |-> "list", raised |-> r.raised, exit |-> ExitCode(r.raised),
                    ret |-> r.ret]
        /\ UNCHANGED <<fmt, supplied, created>>

\* Before the first run: the working directory holds in/abc.mp3 and no base
\* directory.
Init ==
    /\ fmt = NoFmt
    /\ dirs = {<<"in">>}
    /\ files = [p \in {<<"in", "abc.mp3">>} |-> "AUDIO-A"]
    /\ last = NoCall
    /\ supplied = EmptyDict
    /\ created = {}

Next == AudioCommand \/ YoutubeCommand \/ ListCommand

Spec == Init /\ [][Next]_vars

(***************************************************************************)
(* The downloader on its own: each step is one call of download_audio on   *)
(* the file system the calls before it left, by a YouTubeDownloader built  *)
(* with the project structure or without it.                               *)
(***************************************************************************)
\* Two URLs of recognized shapes, of one video, and one of none.
DownloadUrls ==
    {"https://youtu.be/dQw4w9WgXcQ", "https://www.youtube.com/watch?v=dQw4w9WgXcQ",
     "https://example.com/v"}

\* What the download does: it leaves the file of the asked format, or a file
\* the postprocessor did not convert, or a file that is no audio, or it
\* raises and leaves nothing.
Downloads(audio_format) ==
    {[raises |-> FALSE, ext |-> Some(audio_format), content |-> "AUDIO-Y", info |-> VideoInfo],
     [raises |-> FALSE, ext |-> Some("M4A"), content |-> "AUDIO-M", info |-> EmptyDict],
     [raises |-> FALSE, ext |-> Some("part"), content |-> "AUDIO-P", info |-> VideoInfo],
     [raises |-> TRUE, ext |-> None, content |-> "", info |-> VideoInfo]}

\* The two downloaders __init__ can leave.
Downloaders == {YouTubeDownloaderInit(Disk, u).self : u \in BOOLEAN}

DownloadAudio ==
    \E self \in Downloaders, url \in DownloadUrls, audio_format \in AudioFormats,
       now \in Clock :
        \E dl \in Downloads(audio_format) :
          \E st \in {Disk} :
            \E r \in download_audio(st, self, url, audio_format, dl, now) :
                /\ dirs' = r.dirs
                /\ files' = r.files
                /\ last' = [op |-> "download_audio",
                            use_project_structure |-> self.use_project_structure,
                            url |-> url, audio_format |-> audio_format, dl |-> dl,
                            now |-> now, raised |-> r.raised, invoked |-> r.invoked,
                            ret |-> r.ret]
                /\ UNCHANGED <<fmt, supplied, created>>

\* After YouTubeDownloader() and YouTubeDownloader(use_project_structure=False):
\* the base directory and audio_files exist and hold nothing.
InitDownload ==
    /\ fmt = NoFmt
    /\ dirs = {BASE_DIR, <<"audio_files">>}
    /\ files = EmptyFiles
    /\ last = NoCall
    /\ supplied = EmptyDict
    /\ created = {}

NextDownload == DownloadAudio

SpecDownload == InitDownload /\ [][NextDownload]_vars

(***************************************************************************)
(* The transcriber on its own: each step is one call of transcribe_audio   *)
(* on the file system the calls before it left, by an AudioTranscriber     *)
(* built with the project structure or without it.                         *)
(***************************************************************************)
\* The format selectors: three single formats and `all` (vtt is asked for as
\* srt is, and built with `all`).
Selectors == {"text", "json", "srt", "all"}

\* The project transcribe_audio is handed: local_abc.
TheProject == ProjectDirs("abc", "local")

\* The audio paths: the audio of the project, and a path with no file.
TranscribedPaths ==
    {PathJoin(TheProject.src_audio_dir, "abc.mp3"),
     PathJoin(TheProject.src_audio_dir, "missing.mp3")}

\* The two transcribers __init__ can leave.
Transcribers == {AudioTranscriberInit(Disk, "base", u, TRUE).self : u \in BOOLEAN}

\* What the model does with the audio: it returns the transcript or raises.
Outcomes == {Some(Transcript), None}

TranscribeAudio ==
    \E self \in Transcribers, audio_path \in TranscribedPaths,
       output_format \in Selectors, project_dirs \in {None, Some(TheProject)},
       outcome \in Outcomes, now \in Clock :
        \E st \in {Disk} :
          \E r \in {transcribe_audio(st, self, audio_path, None, output_format,
                                     project_dirs, outcome, now)} :
            /\ dirs' = r.dirs
            /\ files' = r.files
            /\ last' = [op |-> "transcribe_audio",
                        use_project_structure |-> self.use_project_structure,
                        audio_path |-> audio_path, existed |-> Exists(st, audio_path),
                        output_format |-> output_format,
                        given |-> project_dirs # None,
                        raised |-> r.raised, invoked |-> r.invoked, ret |-> r.ret]
            /\ UNCHANGED <<fmt, supplied, created>>

\* The file system after ProjectStructure().create_project("abc", "local"),
\* move_audio_to_project of in/abc.mp3 with keep_original, and the two
\* constructors of AudioTranscriber.
Prepared ==
    LET s0 == ProjectStructureInit([dirs |-> {<<"in">>},
                                    files |-> [p \in {<<"in", "abc.mp3">>} |-> "AUDIO-A"]])
        c  == create_project(s0, "abc", "local", None, "2025-01-01T00:00:00")
        m  == move_audio_to_project(c, <<"in", "abc.mp3">>, c.ret, TRUE)
    IN  AudioTranscriberInit(m, "base", FALSE, TRUE)

InitTranscribe ==
    /\ fmt = NoFmt
    /\ dirs = Prepared.dirs
    /\ files = Prepared.files
    /\ last = NoCall
    /\ supplied = EmptyDict
    /\ created = {}

NextTranscribe == TranscribeAudio

SpecTranscribe == InitTranscribe /\ [][NextTranscribe]_vars

(***************************************************************************)
(* Reading a timestamp back: the fields of HH:MM:SS.mmm as numbers.        *)
(***************************************************************************)
IsDigits(s) == \A i \in 1..Len(s) : Char(s, i) \in {Digit(d) : d \in 0..9}

DigitVal(c) == CHOOSE d \in 0..9 : Digit(d) = c

RECURSIVE Val(_)
Val(s) ==
    IF Len(s) = 0 THEN 0
    ELSE 10 * Val(SubSeq(s, 1, Len(s) - 1)) + DigitVal(Char(s, Len(s)))

Abs(x) == IF x < 0 THEN -x ELSE x

\* The fields of a timestamp string, split from its right end.
Fields(out) ==
    LET n == Len(out)
    IN  [hh |-> SubSeq(out, 1, n - 10), c1 |-> Char(out, n - 9),
         mm |-> SubSeq(out, n - 8, n - 7), c2 |-> Char(out, n - 6),
         ss |-> SubSeq(out, n - 5, n - 4), sep |-> Char(out, n - 3),
         mmm |-> SubSeq(out, n - 2, n)]

(***************************************************************************)
(* The claims about the commands, under Spec.                              *)
(***************************************************************************)
\* The project folder the last run of `audio` or `youtube` is to have filled.
RunFolder ==
    IF last.op = "youtube" THEN <<"audio_projects", "youtube_dQw4w9WgXcQ">>
    ELSE IF last.file = <<"in", "abc.mp3">> THEN <<"audio_projects", "local_abc">>
    ELSE <<"audio_projects", "local_missing">>

\* The source audio of the last run, as the project is to hold it: its place
\* and its content.
RunAudio ==
    IF last.op = "youtube"
    THEN [path |-> RunFolder \o <<"src_audio", "dQw4w9WgXcQ.mp3">>, content |-> "AUDIO-Y"]
    ELSE [path |-> RunFolder \o <<"src_audio", last.file[Len(last.file)]>>,
          content |-> "AUDIO-A"]

\* The transcript files a format selector asks for.
RunTranscripts ==
    IF last.format = "all"
    THEN {"transcript.txt", "transcript.json", "transcript.srt", "transcript.vtt"}
    ELSE {"transcript." \o (IF last.format = "text" THEN "txt" ELSE last.format)}

\* The project of the last run holds metadata.json, transcription/settings.json
\* and the requested transcript files.
RunLeftRecords ==
    /\ RunFolder \o <<"metadata.json">> \in DOMAIN files
    /\ RunFolder \o <<"transcription", "settings.json">> \in DOMAIN files
    /\ \A name \in RunTranscripts :
         RunFolder \o <<"transcription", name>> \in DOMAIN files

\* The project of the last run holds the source audio under src_audio.
RunLeftAudio ==
    /\ RunAudio.path \in DOMAIN files
    /\ files[RunAudio.path] = RunAudio.content

\* C1 as stated: after a successful run of `audio` or of `youtube`, with -k or
\* without, the project folder holds the source audio under src_audio,
\* metadata.json, transcription/settings.json and the requested transcripts.
C1_RunLeavesAudioAlways ==
    (last.op \in {"audio", "youtube"} /\ last.exit = 0) =>
        RunLeftAudio /\ RunLeftRecords

\* C1, amended: after a successful run of `audio` or of `youtube -k` the
\* project folder holds all of these; after a successful run of `youtube`
\* without -k it holds metadata.json, settings.json and the requested
\* transcripts, and the downloaded audio file is no longer in src_audio.
C1_RunLeavesAudioIfKept ==
    (last.op \in {"audio", "youtube"} /\ last.exit = 0) =>
        /\ RunLeftRecords
        /\ IF last.op = "youtube" /\ ~last.keep_audio
           THEN RunAudio.path \notin DOMAIN files
           ELSE RunLeftAudio

\* After `audio in/abc.mp3` filled local_abc, a run of `youtube` without -k and
\* with every format has succeeded.
C1_Witness ==
    /\ last.op = "youtube" /\ last.exit = 0 /\ ~last.keep_audio /\ last.format = "all"
    /\ RunLeftRecords
    /\ <<"audio_projects", "local_abc", "src_audio", "abc.mp3">> \in DOMAIN files
    /\ <<"audio_projects", "local_abc", "transcription", "transcript.srt">> \in DOMAIN files
    /\ <<"audio_projects", "local_abc", "metadata.json">> \in DOMAIN files

(***************************************************************************)
(* The claims about the formatter, under SpecFmt.                          *)
(***************************************************************************)
\* The cue blocks a WebVTT file is to hold: each ends with a blank line.
RECURSIVE VttCues(_)
VttCues(segments) ==
    IF Len(segments) = 0 THEN ""
    ELSE _format_timestamp(segments[1].start, FALSE) \o " --> "
         \o _format_timestamp(segments[1].end, FALSE) \o "\n"
         \o Strip(segments[1].text) \o "\n\n" \o VttCues(Tail(segments))

\* C2: the string _generate_vtt returns is "WEBVTT\n\n" followed, for each
\* segment in order, by "<start> --> <end>\n<trimmed text>\n\n": every cue
\* block, the last one too, ends with a blank line.
C2_VttExact ==
    (fmt.op = "generate_vtt" /\ fmt.done) =>
        fmt.out = "WEBVTT\n\n" \o VttCues(fmt.segments)

\* The cue blocks an SRT file is to hold, numbered from i.
RECURSIVE SrtCues(_, _)
SrtCues(segments, i) ==
    IF Len(segments) = 0 THEN ""
    ELSE Dec(i) \o "\n"
         \o _format_timestamp(segments[1].start, TRUE) \o " --> "
         \o _format_timestamp(segments[1].end, TRUE) \o "\n"
         \o Strip(segments[1].text) \o "\n\n" \o SrtCues(Tail(segments), i + 1)

\* C3: the string _generate_srt returns for N segments is N cue blocks in
\* segment order, block i being the line i, the line "<start> --> <end>", the
\* trimmed text and a blank line after it, after the last block too.
C3_SrtBlocks ==
    (fmt.op = "generate_srt" /\ fmt.done) =>
        fmt.out = SrtCues(fmt.segments, 1)

\* C4: _format_timestamp returns HH:MM:SS.mmm (SRT: HH:MM:SS,mmm) with at
\* least two hour digits; the hour field is floor(seconds / 3600), whatever its
\* size; the minute field is floor((seconds mod 3600) / 60); and SS.mmm is the
\* rest of the input rounded to the nearest millisecond.
C4_TimestampFields ==
    (fmt.op = "format_timestamp" /\ fmt.done) =>
        LET f    == Fields(fmt.out)
            h    == Val(f.hh)
            m    == Val(f.mm)
            ms   == 1000 * Val(f.ss) + Val(f.mmm)
            rest == fmt.seconds - h * 3600 * Unit - m * 60 * Unit
        IN  /\ Len(fmt.out) >= 12
            /\ IsDigits(f.hh) /\ IsDigits(f.mm) /\ IsDigits(f.ss) /\ IsDigits(f.mmm)
            /\ f.c1 = ":" /\ f.c2 = ":"
            /\ f.sep = (IF fmt.srt THEN "," ELSE ".")
            /\ h * 3600 * Unit <= fmt.seconds
            /\ fmt.seconds < (h + 1) * 3600 * Unit
            /\ m * 60 * Unit <= fmt.seconds - h * 3600 * Unit
            /\ fmt.seconds - h * 3600 * Unit < (m + 1) * 60 * Unit
            /\ 2 * Abs(ms * Unit - 1000 * rest) <= Unit

\* A timestamp past 24 hours with a fraction that rounds up has been formatted.
C4_Witness ==
    /\ fmt.op = "format_timestamp" /\ fmt.done /\ fmt.srt
    /\ fmt.seconds = 86400 * Unit + (Unit - 1)
    /\ fmt.out = "24:00:01,000"

(***************************************************************************)
(* The claims about the project store.                                     *)
(***************************************************************************)
DiskAfter == [dirs |-> dirs', files |-> files']

\* C5: create_project never raises, and each call leaves the directories it
\* found plus the project folder {prefix}_{name} with its src_audio and
\* transcription: a repeated call adds nothing, and the base directory holds
\* exactly one entry of that name.  Under SpecCreate.
C5_CreateIdempotent ==
    [][last'.op = "create_project" =>
        LET folder      == last'.project_type \o "_" \o last'.project_name
            project_dir == <<"audio_projects", folder>>
            three       == {project_dir, Append(project_dir, "src_audio"),
                            Append(project_dir, "transcription")}
        IN  /\ last'.raised = ""
            /\ last'.ret.project_dir = project_dir
            /\ dirs' = dirs \cup three
            /\ last'.existed => dirs' = dirs
            /\ Cardinality({e \in Entries(DiskAfter, BASE_DIR) : Name(e) = folder}) = 1
       ]_vars

\* create_project has been called with empty metadata on a project that
\* existed, and the project has both subdirectories and no metadata.json.
C5_Witness ==
    /\ last.op = "create_project" /\ last.existed /\ ~last.given /\ last.raised = ""
    /\ last.ret.src_audio_dir \in dirs /\ last.ret.transcription_dir \in dirs
    /\ Append(last.ret.project_dir, "metadata.json") \notin DOMAIN files

\* C6: after any calls of create_project a project's metadata.json exists if
\* and only if some call for that folder supplied a non-empty metadata map,
\* and it holds the map of the last such call with created_at and project_type
\* set to that call's: an empty or absent map left it as it was, a non-empty
\* one replaced it.  Under SpecCreate.
C6_MetadataLastSupplied ==
    \A n \in ProjectNames, t \in ProjectTypes :
        LET folder == t \o "_" \o n
            mf     == <<"audio_projects", folder, "metadata.json">>
        IN  /\ mf \in DOMAIN files <=> folder \in DOMAIN supplied
            /\ folder \in DOMAIN supplied =>
                LET doc == JsonLoad(files[mf])
                    sup == supplied[folder]
                IN  /\ DOMAIN doc = DOMAIN sup.metadata \cup {"created_at", "project_type"}
                    /\ \A k \in DOMAIN sup.metadata : doc[k] = sup.metadata[k]
                    /\ doc["created_at"] = sup.now
                    /\ doc["project_type"] = sup.project_type

\* A project given two metadata maps in turn holds the second, and the last
\* call on it, with nothing to write, left that in place.
C6_Witness ==
    /\ last.op = "create_project" /\ last.existed /\ ~last.given
    /\ Name(last.ret.project_dir) \in DOMAIN supplied
    /\ supplied[Name(last.ret.project_dir)].now = "2025-01-02T00:00:00"
    /\ JsonLoad(files[Append(last.ret.project_dir, "metadata.json")])["title"] = "Second"
    /\ JsonLoad(files[Append(last.ret.project_dir, "metadata.json")])["created_at"]
         = "2025-01-02T00:00:00"

\* C9: list_projects returns, in lexicographic order and without duplicates,
\* the names of the subdirectories of the base directory that start with
\* youtube_ or local_: nothing when the base directory is empty or absent,
\* and otherwise the folders the create_project calls made.  Under SpecCreate.
C9_ListProjects ==
    last.op = "list_projects" =>
        LET ret == last.ret
        IN  /\ \A i \in 1..(Len(ret) - 1) : StrLess(ret[i], ret[i + 1])
            /\ {ret[i] : i \in 1..Len(ret)} =
                 {d[2] : d \in {e \in dirs : Len(e) = 2 /\ e[1] = "audio_projects"
                                    /\ (StartsWith(e[2], "youtube_")
                                        \/ StartsWith(e[2], "local_"))}}
            /\ {ret[i] : i \in 1..Len(ret)} = created
            /\ Entries(Disk, BASE_DIR) = {} => ret = << >>
            /\ created = {"youtube_abc", "local_xyz"} => ret = <<"local_xyz", "youtube_abc">>
            /\ list_projects([dirs |-> {}, files |-> EmptyFiles]) = << >>

\* youtube_abc and local_xyz have been created and listed.
C9_Witness ==
    /\ last.op = "list_projects"
    /\ created = {"youtube_abc", "local_xyz"}
    /\ last.ret = <<"local_xyz", "youtube_abc">>

(***************************************************************************)
(* Under SpecStore.                                                        *)
(***************************************************************************)
\* What C7 says of a call that moved or copied an existing source file.
MovedAsClaimed ==
    LET dest == Append(last.project_dirs.src_audio_dir, Name(last.audio_file))
    IN  /\ last.raised = ""
        /\ last.ret = dest
        /\ dest \in DOMAIN files /\ files[dest] = last.content
        /\ last.keep_original =>
             last.audio_file \in DOMAIN files /\ files[last.audio_file] = last.content
        /\ ~last.keep_original => last.audio_file \notin DOMAIN files

\* C7 as stated: for every existing source file, one already in the project's
\* src_audio directory too, move_audio_to_project returns
\* {src_audio_dir}/{name}; keep_original leaves the source as it was and the
\* destination an identical copy; otherwise the source is gone and the
\* destination holds its content.
C7_MoveAnySource ==
    (last.op = "move_audio_to_project" /\ last.existed) => MovedAsClaimed

\* C7, amended: the same for every existing source file other than
\* {src_audio_dir}/{name} itself; for that one, keep_original raises
\* SameFileError and otherwise the call returns the path, and either way the
\* file stays where it is with its content.
C7_MoveOtherSource ==
    (last.op = "move_audio_to_project" /\ last.existed) =>
        LET dest == Append(last.project_dirs.src_audio_dir, Name(last.audio_file))
        IN  IF last.audio_file # dest THEN MovedAsClaimed
            ELSE /\ last.raised = (IF last.keep_original THEN "SameFileError" ELSE "")
                 /\ last.ret = dest
                 /\ dest \in DOMAIN files /\ files[dest] = last.content

\* After in/abc.mp3 was moved into the project, other/abc.mp3 has been moved
\* onto it.
C7_Witness ==
    /\ last.op = "move_audio_to_project" /\ last.existed /\ ~last.keep_original
    /\ last.audio_file = <<"other", "abc.mp3">>
    /\ <<"in", "abc.mp3">> \notin DOMAIN files
    /\ last.raised = ""
    /\ files[last.ret] = "AUDIO-B"

\* C8: save_transcription_outputs raises nothing, whatever the tags and their
\* order; it writes {transcription_dir}/{base_name}.{txt|json|srt|vtt} for each
\* of the tags text, json, srt, vtt and nothing for another tag, and the map it
\* returns has exactly the tags whose file was written, each with its own path.
C8_UnknownTagsIgnored ==
    last.op = "save_transcription_outputs" =>
        LET tags   == {last.outputs[i][1] : i \in 1..Len(last.outputs)}
            ext    == [t \in {"text", "json", "srt", "vtt"} |->
                          IF t = "text" THEN "txt" ELSE t]
            path(t) == Append(last.project_dirs.transcription_dir,
                              last.base_name \o "." \o ext[t])
        IN  /\ last.raised = ""
            /\ DOMAIN last.ret = tags \cap DOMAIN ext
            /\ \A t \in tags \cap DOMAIN ext :
                 last.ret[t] = path(t) /\ path(t) \in DOMAIN files
            /\ \A f \in Entries(Disk, last.project_dirs.transcription_dir) :
                 Name(f) = "settings.json"
                 \/ \E t \in DOMAIN ext : Name(f) = "transcript." \o ext[t]

\* The project get_project_info was asked about exists and holds an entry in
\* src_audio and one in transcription.
InfoOfFullProject(st) ==
    LET project_dir == <<"audio_projects", last.project_name>>
    IN  /\ project_dir \in st.dirs
        /\ Entries(st, Append(project_dir, "src_audio")) # {}
        /\ Entries(st, Append(project_dir, "transcription")) # {}

\* What get_project_info returned: None for a folder that does not exist, and
\* both flags true for a project with entries in both subdirectories.
InfoFlags(st) ==
    /\ <<"audio_projects", last.project_name>> \notin st.dirs => last.ret = None
    /\ InfoOfFullProject(st) =>
         /\ last.ret # None
         /\ last.ret[1]["has_audio"] /\ last.ret[1]["has_transcription"]

\* C10 as stated: None for a folder that does not exist; for a project with
\* entries in both subdirectories both flags true and the parsed metadata
\* included; and nothing on disk changed.
C10_InfoAlwaysHasMetadata ==
    [][last'.op = "get_project_info" =>
        /\ dirs' = dirs /\ files' = files
        /\ InfoFlags(Disk)'
        /\ InfoOfFullProject(Disk)' => "metadata" \in DOMAIN last'.ret[1]
       ]_vars

\* C10, amended: the parsed metadata is included when the project has a
\* metadata.json, and the info has no metadata when it has none.
C10_InfoHasMetadataIfPresent ==
    [][last'.op = "get_project_info" =>
        /\ dirs' = dirs /\ files' = files
        /\ InfoFlags(Disk)'
        /\ InfoOfFullProject(Disk)' =>
             LET mf == <<"audio_projects", last'.project_name, "metadata.json">>
             IN  IF mf \in DOMAIN files'
                 THEN /\ "metadata" \in DOMAIN last'.ret[1]
                      /\ last'.ret[1]["metadata"] = JsonLoad(files'[mf])
                 ELSE "metadata" \notin DOMAIN last'.ret[1]
       ]_vars

\* A project with audio, transcripts and metadata has been asked about.
C10_Witness ==
    /\ last.op = "get_project_info" /\ InfoOfFullProject(Disk)
    /\ last.ret # None
    /\ last.ret[1]["has_audio"] /\ last.ret[1]["has_transcription"]
    /\ "metadata" \in DOMAIN last.ret[1]
    /\ last.ret[1]["metadata"]["title"] = "First"


(***************************************************************************)
(* The claims about the clock fields of a timestamp and about a run of     *)
(* `audio` on a missing file.                                              *)
(***************************************************************************)
\* C16 as stated: whatever the non-negative input, the minutes field and the
\* seconds field of the timestamp _format_timestamp returns are both in 00..59.
C16_ClockFields ==
    (fmt.op = "format_timestamp" /\ fmt.done) =>
        /\ Val(Fields(fmt.out).mm) \in 0..59
        /\ Val(Fields(fmt.out).ss) \in 0..59

\* C17 as stated: a run of `audio` on a file that does not exist ends with
\* FileNotFoundError and exit code 1, creates no project folder local_{stem}
\* and writes or overwrites no metadata.json.
C17_MissingFileLeavesBase ==
    [][(last'.op = "audio" /\ ~last'.existed) =>
          /\ last'.raised = "FileNotFoundError" /\ last'.exit = 1
          /\ PathJoin(BASE_DIR, "local_" \o Stem(last'.file)) \in dirs' =>
                PathJoin(BASE_DIR, "local_" \o Stem(last'.file)) \in dirs
          /\ \A p \in DOMAIN files' :
                Name(p) = "metadata.json" => p \in DOMAIN files /\ files'[p] = files[p]]_vars


(***************************************************************************)
(* The claims about the downloader, under SpecDownload.                    *)
(***************************************************************************)
\* C12: download_audio on a URL that matches none of the patterns raises
\* ValueError before yt_dlp is called and leaves the file system as it was: no
\* temp_downloads, no project folder and no metadata.json is created.
C12_InvalidUrlRejected ==
    [][(last'.op = "download_audio" /\ FirstMatch(last'.url, 1) = None) =>
          /\ last'.raised = "ValueError"
          /\ ~last'.invoked
          /\ dirs' = dirs
          /\ files' = files]_vars

\* A URL of no recognized shape was refused after an earlier download had
\* filled its project, and there is no temp_downloads.
C12_Witness ==
    /\ last.op = "download_audio" /\ last.url = "https://example.com/v"
    /\ last.use_project_structure
    /\ last.raised = "ValueError" /\ ~last.invoked
    /\ <<"temp_downloads">> \notin dirs
    /\ <<"audio_projects", "youtube_dQw4w9WgXcQ", "metadata.json">> \in DOMAIN files

\* The source metadata download_audio is to give the project, from what the
\* download reported.
ExpectedMetadata(info, video_id, url) ==
    [title |-> Get(info, "title", "Unknown"), duration |-> Get(info, "duration", 0),
     uploader |-> Get(info, "uploader", "Unknown"), video_id |-> video_id, url |-> url,
     upload_date |-> Get(info, "upload_date", "Unknown"),
     view_count |-> Get(info, "view_count", 0), description |-> Get(info, "description", "")]

\* C14: in the project structure, a download_audio that returns leaves the
\* returned audio_file in src_audio of project youtube_{video_id}, nothing
\* under temp_downloads and no temp_downloads, and metadata.json of the project
\* holds the source metadata.  The order of the steps shows in the calls that
\* fail: when the download raises, temp_downloads exists and nothing else has
\* changed (the project is created after the download); when the file is not
\* found, the project and its metadata.json are there and so is temp_downloads
\* (the project is created before the move, the directory deleted after it).
C14_DownloadIntoProject ==
    [][(last'.op = "download_audio" /\ last'.use_project_structure
        /\ FirstMatch(last'.url, 1) # None) =>
          \A video_id \in {FirstMatch(last'.url, 1)[1]} :
          LET temp     == <<"temp_downloads">>
              project  == <<"audio_projects", "youtube_" \o video_id>>
              metadata == project \o <<"metadata.json">>
              expected == ExpectedMetadata(last'.dl.info, video_id, last'.url)
              holds    == /\ metadata \in DOMAIN files'
                          /\ \A k \in DOMAIN expected :
                               /\ k \in DOMAIN JsonLoad(files'[metadata])
                               /\ JsonLoad(files'[metadata])[k] = expected[k]
          IN  /\ last'.invoked
              /\ last'.raised = "" =>
                    /\ last'.ret[1]["video_id"] = video_id
                    /\ last'.ret[1]["project_dirs"].project_dir = project
                    /\ Parent(last'.ret[1]["audio_file"]) = project \o <<"src_audio">>
                    /\ last'.ret[1]["audio_file"] \in DOMAIN files'
                    /\ temp \notin dirs'
                    /\ \A p \in DOMAIN files' : p[1] # "temp_downloads"
                    /\ holds
              /\ last'.dl.raises =>
                    /\ last'.raised # ""
                    /\ dirs' = dirs \cup {temp}
                    /\ files' = files
              /\ (last'.raised # "" /\ ~last'.dl.raises) =>
                    /\ project \in dirs'
                    /\ holds
                    /\ temp \in dirs']_vars

\* A download that left a file of another extension has been moved into the
\* project an earlier download had filled, and temp_downloads is gone.
C14_Witness ==
    /\ last.op = "download_audio" /\ last.use_project_structure /\ last.raised = ""
    /\ last.ret[1]["audio_file"]
         = <<"audio_projects", "youtube_dQw4w9WgXcQ", "src_audio", "dQw4w9WgXcQ.M4A">>
    /\ last.ret[1]["audio_file"] \in DOMAIN files
    /\ <<"audio_projects", "youtube_dQw4w9WgXcQ", "src_audio", "dQw4w9WgXcQ.mp3">>
         \in DOMAIN files
    /\ <<"temp_downloads">> \notin dirs


(***************************************************************************)
(* The claims about the transcriber, under SpecTranscribe.                 *)
(***************************************************************************)
\* C11: transcribe_audio on a path with no file raises FileNotFoundError
\* before the model is called, and leaves the file system, the project with
\* its settings and transcripts included, as it was.
C11_MissingAudioRejected ==
    [][(last'.op = "transcribe_audio" /\ ~last'.existed) =>
          /\ last'.raised = "FileNotFoundError"
          /\ ~last'.invoked
          /\ dirs' = dirs
          /\ files' = files]_vars

\* A call in the project structure on a path with no file was refused after
\* an earlier call had written settings.json and a transcript.
C11_Witness ==
    /\ last.op = "transcribe_audio" /\ ~last.existed
    /\ last.use_project_structure /\ last.given
    /\ last.raised = "FileNotFoundError" /\ ~last.invoked
    /\ PathJoin(TheProject.transcription_dir, "settings.json") \in DOMAIN files
    /\ PathJoin(TheProject.transcription_dir, "transcript.srt") \in DOMAIN files

\* The format tags a selector asks for.
AskedFor(selector) ==
    IF selector = "all" THEN {"text", "json", "srt", "vtt"} ELSE {selector}

\* The files a call has written: those that are new or hold something else.
WrittenBy(before, after) ==
    {p \in DOMAIN after : p \notin DOMAIN before \/ after[p] # before[p]}

\* C13 as stated: whatever the selector, and with project_dirs or without, a
\* transcribe_audio on an existing file whose model call returns does return,
\* with text, language, duration and segments and with output_files whose keys
\* are the requested formats; the files it writes are those, and settings.json.
C13_ReturnsRequested ==
    [][(last'.op = "transcribe_audio" /\ last'.existed /\ last'.raised # "RuntimeError") =>
          /\ last'.raised = ""
          /\ last'.ret # None
          /\ {"text", "language", "duration", "segments", "output_files"}
                \subseteq DOMAIN last'.ret[1]
          /\ DOMAIN last'.ret[1].output_files = AskedFor(last'.output_format)
          /\ WrittenBy(files, files')
                \subseteq {last'.ret[1].output_files[t] : t \in AskedFor(last'.output_format)}
                          \cup {PathJoin(TheProject.transcription_dir, "settings.json")}]_vars

\* The transcript.* files in the transcription directory of the project.
TranscriptFiles(disk) ==
    {p \in DOMAIN disk : /\ Parent(p) = TheProject.transcription_dir
                         /\ StartsWith(Name(p), "transcript.")}

\* The selector settings.json records.
RecordedSelector(disk) ==
    JsonLoad(disk[PathJoin(TheProject.transcription_dir, "settings.json")]).output_format

\* The last call was a transcribe_audio in the project that returned.
ReturnedInProject(call) ==
    /\ call.op = "transcribe_audio" /\ call.raised = ""
    /\ call.use_project_structure /\ call.given

\* C15 as stated: after a transcribe_audio in the project has returned, the
\* paths of its output_files are the transcript.* files in the transcription
\* directory, none of a format it was not asked for remains, and settings.json
\* records its selector.
C15_OutputsAreTheFiles ==
    ReturnedInProject(last) =>
        /\ {last.ret[1].output_files[t] : t \in DOMAIN last.ret[1].output_files}
              = TranscriptFiles(files)
        /\ RecordedSelector(files) = last.output_format

\* C15, amended: a transcribe_audio in the project that returns has in
\* output_files exactly the requested formats, each with the path of a
\* transcript.* file that is in the transcription directory, and settings.json
\* records its selector; the transcript files earlier calls wrote in formats
\* it was not asked for are still there, as they were.
C15_OutputsAmongTheFiles ==
    [][ReturnedInProject(last') =>
          /\ DOMAIN last'.ret[1].output_files = AskedFor(last'.output_format)
          /\ \A t \in AskedFor(last'.output_format) :
                /\ last'.ret[1].output_files[t]
                     = PathJoin(TheProject.transcription_dir,
                                "transcript." \o (IF t = "text" THEN "txt" ELSE t))
                /\ last'.ret[1].output_files[t] \in TranscriptFiles(files')
          /\ RecordedSelector(files') = last'.output_format
          /\ \A p \in TranscriptFiles(files) :
                /\ p \in TranscriptFiles(files')
                /\ p \notin {last'.ret[1].output_files[t] :
                               t \in AskedFor(last'.output_format)}
                     => files'[p] = files[p]]_vars

\* After a call for every format, a call for srt alone has returned: the four
\* transcripts are on disk and settings.json records srt.
C15_Witness ==
    /\ ReturnedInProject(last) /\ last.output_format = "srt"
    /\ DOMAIN last.ret[1].output_files = {"srt"}
    /\ RecordedSelector(files) = "srt"
    /\ Cardinality(TranscriptFiles(files)) = 4

=============================================================================
